---- MODULE Spec2Model ----
(***************************************************************************)
(* Mirage-Net: the controller's peer directory (controller/app) and the    *)
(* gateway's load-aware balancer (gateway/app).                            *)
(*                                                                         *)
(* Directory part.  The Redis store is a map from peer key to a stored     *)
(* text with an optional expiry; the clock `now` stands for both           *)
(* datetime.utcnow() and the store's expiry clock, in whole seconds.  The  *)
(* HTTP handlers of main.py are `async def` bodies without an await, so    *)
(* one handler runs to its end before the next starts; the store, being    *)
(* another process, keeps expiring keys while a handler runs, which is     *)
(* why the heartbeat is two steps (its GET, then its SETEX).               *)
(***************************************************************************)
EXTENDS Integers, Sequences, FiniteSets, TLC

\* ------------------------------------------------------------- bounds
MaxNow == 5

PeerIds == {"p1", "p2"}
Ips == {"10.0.0.1", "10.0.0.2"}
\* PEER_TIMEOUT as the environment may set it (peer_manager.py:14 reads any int)
PeerTimeouts == {0 - 1, 0, 1, 2}
\* CN_API_KEY: "" stands for unset (None) or empty, both falsy
ExpectedKeys == {"", "k1"}
\* X-API-Key header values: empty, the right key, a wrong ASCII key, and a
\* wrong key holding a byte above 0x7f (the framework decodes it as latin-1)
NonAsciiKeys == {"k-e-acute"}
ApiKeys == {"", "k1", "bad"} \cup NonAsciiKeys

\* the directory's state
VARIABLES now, peer_timeout, expected_key, store, hb, last
\* the gateway's state
VARIABLES gnow, peer_health, task, attempt, deadline, timers, outcomes, inflight, glast

dirvars == <<now, peer_timeout, expected_key, store, hb, last>>
gwvars == <<gnow, peer_health, task, attempt, deadline, timers, outcomes, inflight, glast>>
vars == <<dirvars, gwvars>>

\* ------------------------------------------------------ JSON documents
\* A JSON document as Python sees it after json.loads: kind "object" is a
\* dict with at least one key, "array" stands for every truthy value that is
\* not a dict (list, string, number, true), "falsy" for 0, "", [], {}, false
\* and null, and "none" is Python's None.  Of a dict's keys the model keeps
\* id ("" when the key is missing), ip and last_seen.
Missing == [form |-> "missing", t |-> 0]
NotIso == [form |-> "text", t |-> 0]
Number == [form |-> "number", t |-> 0]

\* datetime.isoformat(): the timestamp as an ISO-8601 string
isoformat(t) == [form |-> "iso", t |-> t]

\* datetime.fromisoformat(x): TypeError unless x is a str, ValueError unless
\* the str is ISO-8601, else the timestamp
fromisoformat(x) ==
    CASE x.form = "iso" -> [exc |-> "none", t |-> x.t]
      [] x.form = "text" -> [exc |-> "ValueError", t |-> 0]
      [] OTHER -> [exc |-> "TypeError", t |-> 0]

NoneV == [kind |-> "none", id |-> "", ip |-> "", last_seen |-> Missing]
FalsyV == [kind |-> "falsy", id |-> "", ip |-> "", last_seen |-> Missing]
ArrayV == [kind |-> "array", id |-> "", ip |-> "", last_seen |-> Missing]
Object(id, ip, ls) == [kind |-> "object", id |-> id, ip |-> ip, last_seen |-> ls]

\* Python truthiness of a loaded document
Truthy(v) == v.kind \in {"object", "array"}

\* json.dumps / json.loads: the stored text is either the dump of a document
\* or a text that is no JSON at all
dumps(v) == [json |-> TRUE, doc |-> v]
Garbage == [json |-> FALSE, doc |-> NoneV]
loads(text) ==
    IF text.json THEN [exc |-> "none", doc |-> text.doc]
    ELSE [exc |-> "JSONDecodeError", doc |-> NoneV]

\* ------------------------------------------------------------ RedisDB
Absent == [present |-> FALSE, text |-> Garbage, persist |-> FALSE, exp |-> 0]

\* the store's own expiry: a key with a TTL is gone once the TTL has elapsed
Expire(st, t) ==
    [k \in PeerIds |->
        IF st[k].present /\ ~st[k].persist /\ t >= st[k].exp THEN Absent ELSE st[k]]

\* RedisDB.set_key: SETEX when expire is truthy, a plain SET (no expiry)
\* otherwise; SETEX refuses a non-positive expiry (RedisError -> False)
set_key(st, key, value, expire, t) ==
    LET serialized == dumps(value) IN
    IF expire # 0
    THEN IF expire > 0
         THEN [ok |-> TRUE,
               store |-> [st EXCEPT ![key] =
                   [present |-> TRUE, text |-> serialized, persist |-> FALSE,
                    exp |-> t + expire]]]
         ELSE [ok |-> FALSE, store |-> st]
    ELSE [ok |-> TRUE,
          store |-> [st EXCEPT ![key] =
              [present |-> TRUE, text |-> serialized, persist |-> TRUE, exp |-> 0]]]

\* RedisDB.get_key: None for a missing key, an empty text or an unparsable one
get_key(st, key) ==
    IF ~st[key].present THEN NoneV
    ELSE LET r == loads(st[key].text) IN
         IF r.exc = "none" THEN r.doc ELSE NoneV

\* RedisDB.delete_key
delete_key(st, key) == [st EXCEPT ![key] = Absent]

\* RedisDB.get_all_keys("peer:*")
get_all_keys(st) == {k \in PeerIds : st[k].present}

\* ----------------------------------------------------------- security
\* hmac.compare_digest on two str: TypeError when either holds a non-ASCII
\* character, else equality
compare_digest(a, b) ==
    IF a \in NonAsciiKeys \/ b \in NonAsciiKeys THEN "TypeError"
    ELSE IF a = b THEN "True" ELSE "False"

\* security.validate_api_key
validate_api_key(api_key, expected) ==
    IF expected = "" \/ api_key = "" THEN "False"
    ELSE compare_digest(api_key, expected)

\* -------------------------------------------------------- PeerManager
\* is_peer_online with the comparison taken as <=
is_peer_online_le(peer, t, timeout) ==
    IF peer.kind # "object" THEN "TypeError"
    ELSE IF peer.last_seen.form = "missing" THEN "False"
    ELSE LET p == fromisoformat(peer.last_seen) IN
         CASE p.exc = "TypeError" -> "TypeError"
           [] p.exc = "ValueError" -> "False"
           [] OTHER -> IF (t - p.t) <= timeout THEN "True" ELSE "False"

\* PeerManager._is_peer_online: "True", "False", or the TypeError that the
\* except (ValueError, KeyError) clause lets through
is_peer_online(peer, t, timeout) ==
    IF peer.kind # "object" THEN "TypeError"
    ELSE IF peer.last_seen.form = "missing" THEN "False"
    ELSE LET p == fromisoformat(peer.last_seen) IN
         CASE p.exc = "TypeError" -> "TypeError"
           [] p.exc = "ValueError" -> "False"
           [] OTHER -> IF (t - p.t) < timeout THEN "True" ELSE "False"

\* PeerManager.register_peer: False when peer_info has no "id" (KeyError)
PeerManager_register_peer(st, peer_info, t, timeout) ==
    IF peer_info.id = "" THEN [ok |-> FALSE, store |-> st]
    ELSE set_key(st, peer_info.id, peer_info, timeout * 2, t)

\* PeerManager.get_peer
get_peer(st, peer_id) == get_key(st, peer_id)

\* PeerManager.get_available_peers: the scan raises when a liveness check
\* raises, whatever the order of the keys; otherwise the online records
get_available_peers(st, t, timeout) ==
    LET all_peer_keys == get_all_keys(st)
        checked == {k \in all_peer_keys : Truthy(get_key(st, k))}
        raised == \E k \in checked : is_peer_online(get_key(st, k), t, timeout) = "TypeError"
    IN  [raised |-> raised,
         peers |-> IF raised THEN {}
                   ELSE {get_key(st, k) : k \in
                           {c \in checked : is_peer_online(get_key(st, c), t, timeout) = "True"}}]

\* update_peer_heartbeat_write that renews the expiry but keeps the old last_seen
update_peer_heartbeat_write_stale(st, peer_id, peer, t, timeout) ==
    IF peer.kind # "object" THEN [exc |-> "TypeError", ok |-> FALSE, store |-> st]
    ELSE LET r == set_key(st, peer_id, peer, timeout * 2, t)
         IN  [exc |-> "none", ok |-> r.ok, store |-> r.store]

\* PeerManager.update_peer_heartbeat, after its read: the write of the record
\* read earlier with last_seen set to now
update_peer_heartbeat_write(st, peer_id, peer, t, timeout) ==
    IF peer.kind # "object" THEN [exc |-> "TypeError", ok |-> FALSE, store |-> st]
    ELSE LET r == set_key(st, peer_id, [peer EXCEPT !.last_seen = isoformat(t)],
                          timeout * 2, t)
         IN  [exc |-> "none", ok |-> r.ok, store |-> r.store]

\* PeerManager.cleanup_dead_peers over the keys in the order the store gave
\* them: a raising liveness check, or a deleted record without "id" (the log
\* line reads peer['id']), ends the sweep there
RECURSIVE cleanup_dead_peers(_, _, _, _)
cleanup_dead_peers(st, keys, t, timeout) ==
    IF keys = <<>> THEN [raised |-> FALSE, store |-> st]
    ELSE LET key == Head(keys)
             peer == get_key(st, key)
             online == is_peer_online(peer, t, timeout)
         IN  IF ~Truthy(peer) THEN cleanup_dead_peers(st, Tail(keys), t, timeout)
             ELSE CASE online = "TypeError" -> [raised |-> TRUE, store |-> st]
                    [] online = "True" -> cleanup_dead_peers(st, Tail(keys), t, timeout)
                    [] OTHER ->
                        IF peer.id = ""
                        THEN [raised |-> TRUE, store |-> delete_key(st, key)]
                        ELSE cleanup_dead_peers(delete_key(st, key), Tail(keys), t, timeout)

\* PeerManager.get_network_stats
get_network_stats(st, t, timeout) ==
    LET r == get_available_peers(st, t, timeout) IN
    [raised |-> r.raised, total_peers |-> Cardinality(r.peers),
     peer_ids |-> {p.id : p \in r.peers}]

\* ----------------------------------------------------- HTTP endpoints
HTTP_200_OK == 200
HTTP_400_BAD_REQUEST == 400
HTTP_401_UNAUTHORIZED == 401
HTTP_404_NOT_FOUND == 404
HTTP_500_INTERNAL_SERVER_ERROR == 500

\* An HTTPException raised inside a handler's try block is an Exception: the
\* handler's `except Exception` catches it and raises a 500 in its place
except_Exception(raised_status) == HTTP_500_INTERNAL_SERVER_ERROR

\* the record of the operation just performed
Done(op, id, key, status, ret, peers) ==
    [op |-> op, id |-> id, key |-> key, status |-> status, ret |-> ret, peers |-> peers,
     at |-> now]

NoHb == [active |-> FALSE, id |-> "", peer |-> NoneV, at |-> 0]

\* ============================================================ gateway
(***************************************************************************)
(* LoadAwareBalancer.  One event loop runs the refresh task, the feedback  *)
(* calls and the deferred decrements, so each step below runs from one     *)
(* await to the next.  gnow is time.time() in whole seconds; time moves    *)
(* to the next instant at which a sleep ends, and the GET itself takes no  *)
(* time (its answer, error or timeout comes at once).  peer_health         *)
(* is a dict: a sequence of PeerHealth records in insertion order, one     *)
(* per peer_id.  response_time is kept in 1/RtUnit ms and success_rate in  *)
(* 1/SrUnit, so that the updates below are exact integer arithmetic.       *)
(***************************************************************************)
MaxGwNow == 60
MaxStaleNow == 340
MaxEvictNow == 390
MaxRetryNow == 60
MaxOutcomes == 2
MaxFeedback == 6
MaxInFlight == 2
MaxRateOutcomes == 21
MaxPending == 3
MaxRateNow == 60

RtUnit == 10 * 1000
SrUnit == 10 * 10

update_interval == 30
max_retries == 5
retry_delay == 2
stale_window == 300
decrement_delay == 60
seed_response_time == 100
seed_max_connections == 50
seed_success_rate_percent == 95

\* response times a forwarded request may report, in ms
Samples == {50, 500}

\* the entries a 200 response may list: {id, ip}, as the directory returns
\* them for records that carry both keys, and with either key missing
WellFormedEntries == {[id |-> p, ip |-> "10.0.0.1"] : p \in PeerIds}
PollEntries ==
    WellFormedEntries
    \cup {[id |-> "", ip |-> "10.0.0.1"]}
    \cup {[id |-> p, ip |-> ""] : p \in PeerIds}

\* the lists over a set of entries, each entry at most once, in every order
ListsOver(E) ==
    {l \in UNION {[1..n -> E] : n \in 0..Cardinality(PeerIds)} :
        \A i, j \in 1..Len(l) : i # j => l[i] # l[j]}
WellFormedLists == ListsOver(WellFormedEntries)
PollLists == ListsOver(PollEntries)

Tracked(tbl, id) == \E i \in 1..Len(tbl) : tbl[i].peer_id = id
IndexOf(tbl, id) == CHOOSE i \in 1..Len(tbl) : tbl[i].peer_id = id
Health(tbl, id) == tbl[IndexOf(tbl, id)]
TrackedIds(tbl) == {tbl[i].peer_id : i \in 1..Len(tbl)}

\* the PeerHealth a poll creates for a peer it has not seen (lines 79-87)
SeedHealth(peer, t) ==
    [peer_id |-> peer.id, ip_address |-> peer.ip, last_seen |-> t,
     response_time |-> seed_response_time * RtUnit, active_connections |-> 0,
     max_connections |-> seed_max_connections,
     success_rate |-> (seed_success_rate_percent * SrUnit) \div 100]

\* process_peers that builds a fresh PeerHealth at every sighting
RECURSIVE process_peers_reseed(_, _, _)
process_peers_reseed(tbl, peers, t) ==
    IF peers = <<>> THEN [exc |-> FALSE, table |-> tbl]
    ELSE LET peer == Head(peers) IN
         IF peer.id = "" THEN [exc |-> TRUE, table |-> tbl]
         ELSE IF ~Tracked(tbl, peer.id)
         THEN IF peer.ip = "" THEN [exc |-> TRUE, table |-> tbl]
              ELSE process_peers_reseed(Append(tbl, SeedHealth(peer, t)), Tail(peers), t)
         ELSE process_peers_reseed(
                  [tbl EXCEPT ![IndexOf(tbl, peer.id)] = SeedHealth(peer, t)],
                  Tail(peers), t)

\* the poll's loop over the returned peers (lines 75-90): a KeyError on a
\* missing 'id', or on the 'ip' of an unseen peer, ends it where it stands
RECURSIVE process_peers(_, _, _)
process_peers(tbl, peers, t) ==
    IF peers = <<>> THEN [exc |-> FALSE, table |-> tbl]
    ELSE LET peer == Head(peers) IN
         IF peer.id = "" THEN [exc |-> TRUE, table |-> tbl]
         ELSE IF ~Tracked(tbl, peer.id)
         THEN IF peer.ip = "" THEN [exc |-> TRUE, table |-> tbl]
              ELSE process_peers(Append(tbl, SeedHealth(peer, t)), Tail(peers), t)
         ELSE process_peers([tbl EXCEPT ![IndexOf(tbl, peer.id)].last_seen = t],
                            Tail(peers), t)

\* IsStale with the comparison taken as <=
IsStale_le(health, t) == health.last_seen <= t - stale_window

\* the test of the stale sweep (line 96)
IsStale(health, t) == health.last_seen < t - stale_window

\* the removal of stale peers (lines 93-99)
remove_stale(tbl, t) == SelectSeq(tbl, LAMBDA health : ~IsStale(health, t))

\* what a 200 response does to the table: the loop, then the stale sweep,
\* which an exception in the loop skips
on_response_200(tbl, peers, t) ==
    LET r == process_peers(tbl, peers, t) IN
    IF r.exc THEN r ELSE [exc |-> FALSE, table |-> remove_stale(r.table, t)]

\* update_peer_performance that starts a record for a peer it does not know
update_peer_performance_upsert(tbl, peer_id, response_time, success) ==
    [table |-> IF Tracked(tbl, peer_id) THEN tbl
               ELSE Append(tbl, SeedHealth([id |-> peer_id, ip |-> ""], 0)),
     scheduled |-> success]

\* update_peer_performance without the min and the max around success_rate
update_peer_performance_unclamped(tbl, peer_id, response_time, success) ==
    IF ~Tracked(tbl, peer_id) THEN [table |-> tbl, scheduled |-> FALSE]
    ELSE LET i == IndexOf(tbl, peer_id)
             health == tbl[i]
             updated ==
                [health EXCEPT
                   !.response_time = (7 * health.response_time
                                        + 3 * response_time * RtUnit) \div 10,
                   !.success_rate =
                       IF success THEN health.success_rate + SrUnit \div 100
                       ELSE health.success_rate - (5 * SrUnit) \div 100,
                   !.active_connections =
                       IF success THEN health.active_connections + 1
                       ELSE health.active_connections]
         IN  [table |-> [tbl EXCEPT ![i] = updated], scheduled |-> success]

\* update_peer_performance on the table: the new table and whether a
\* deferred decrement was scheduled
update_peer_performance(tbl, peer_id, response_time, success) ==
    IF ~Tracked(tbl, peer_id) THEN [table |-> tbl, scheduled |-> FALSE]
    ELSE LET i == IndexOf(tbl, peer_id)
             health == tbl[i]
             updated ==
                [health EXCEPT
                   !.response_time = (7 * health.response_time
                                        + 3 * response_time * RtUnit) \div 10,
                   !.success_rate =
                       IF success
                       THEN IF health.success_rate + SrUnit \div 100 > SrUnit
                            THEN SrUnit ELSE health.success_rate + SrUnit \div 100
                       ELSE IF health.success_rate - (5 * SrUnit) \div 100 < 0
                            THEN 0 ELSE health.success_rate - (5 * SrUnit) \div 100,
                   !.active_connections =
                       IF success THEN health.active_connections + 1
                       ELSE health.active_connections]
         IN  [table |-> [tbl EXCEPT ![i] = updated], scheduled |-> success]

\* _decrement_connection_count without the max(0, ...)
decrement_connection_count_unfloored(tbl, peer_id) ==
    IF ~Tracked(tbl, peer_id) THEN tbl
    ELSE [tbl EXCEPT ![IndexOf(tbl, peer_id)].active_connections = @ - 1]

\* _decrement_connection_count once its sleep is over
decrement_connection_count(tbl, peer_id) ==
    IF ~Tracked(tbl, peer_id) THEN tbl
    ELSE LET i == IndexOf(tbl, peer_id) IN
         [tbl EXCEPT ![i].active_connections =
             IF tbl[i].active_connections - 1 < 0 THEN 0
             ELSE tbl[i].active_connections - 1]

\* ---------------------------------------------------------- selection
\* get_best_peer computes in floats; the model computes the same expressions
\* in rationals [n, d], d > 0, kept in lowest terms.
RECURSIVE GCD(_, _)
GCD(a, b) == IF b = 0 THEN a ELSE GCD(b, a % b)

Ratio(n, d) ==
    LET g == GCD(IF n < 0 THEN 0 - n ELSE n, d) IN
    IF n = 0 THEN [n |-> 0, d |-> 1] ELSE [n |-> n \div g, d |-> d \div g]
RatAdd(x, y) == Ratio(x.n * y.d + y.n * x.d, x.d * y.d)
RatMul(x, y) == Ratio(x.n * y.n, x.d * y.d)
\* a/b < c/d for a, c >= 0 and b, d > 0, by whole parts and then the
\* remainders turned over, so that no product leaves the machine integers
RECURSIVE FracLess(_, _, _, _)
FracLess(a, b, c, d) ==
    IF a \div b # c \div d THEN a \div b < c \div d
    ELSE IF c % d = 0 THEN FALSE
    ELSE IF a % b = 0 THEN TRUE
    ELSE FracLess(d, c % d, b, a % b)

RatLess(x, y) == FracLess(x.n, x.d, y.n, y.d)

\* the filter of lines 144-148, with the threshold taken as >=
eligible_ge(health) ==
    /\ health.active_connections < health.max_connections
    /\ 10 * health.success_rate >= 7 * SrUnit

\* the filter of lines 144-148 without the test of success_rate
eligible_any(health) ==
    health.active_connections < health.max_connections

\* the filter of lines 144-148: room for a connection and success_rate > 0.7
eligible(health) ==
    /\ health.active_connections < health.max_connections
    /\ 10 * health.success_rate > 7 * SrUnit

\* line 157
load_factor(peer) == Ratio(peer.active_connections, peer.max_connections)

\* line 160: (1000 / response_time) * success_rate
performance_score(peer) ==
    Ratio(1000 * RtUnit * peer.success_rate, peer.response_time * SrUnit)

\* total_score that leaves the load out
total_score_no_load(peer) == RatMul(Ratio(7, 10), performance_score(peer))

\* line 163: 0.3 * (1 - load_factor) + 0.7 * performance_score
total_score(peer) ==
    RatAdd(RatMul(Ratio(3, 10),
                  RatAdd(Ratio(1, 1), RatMul(Ratio(0 - 1, 1), load_factor(peer)))),
           RatMul(Ratio(7, 10), performance_score(peer)))

\* available_peers and scored_peers (lines 144-165), in the order of the dict
scored_peers(tbl) ==
    LET available == SelectSeq(tbl, eligible) IN
    [i \in 1..Len(available) |->
        [score |-> total_score(available[i]), peer |-> available[i]]]

\* one step of the sort: x goes behind every entry whose score is not lower,
\* so entries of equal score keep the order in which they came
insert_after_equal(sorted, x) ==
    LET ahead == {i \in 1..Len(sorted) : ~RatLess(sorted[i].score, x.score)}
        k == IF ahead = {} THEN 0 ELSE CHOOSE i \in ahead : \A j \in ahead : j <= i
    IN  SubSeq(sorted, 1, k) \o <<x>> \o SubSeq(sorted, k + 1, Len(sorted))

\* list.sort(key=score, reverse=True) (line 168): a stable sort, highest
\* score first
RECURSIVE sort_reverse(_)
sort_reverse(scored) ==
    IF scored = <<>> THEN <<>>
    ELSE insert_after_equal(sort_reverse(SubSeq(scored, 1, Len(scored) - 1)),
                            scored[Len(scored)])

\* NoPeer stands for None
NoPeer == [peer_id |-> ""]

\* get_best_peer (lines 142-169)
get_best_peer(tbl) ==
    LET sorted == sort_reverse(scored_peers(tbl)) IN
    IF sorted = <<>> THEN NoPeer ELSE sorted[1].peer

\* the record of the gateway step just performed
GwDone(op, id, peers, ok) ==
    [op |-> op, id |-> id, peers |-> peers, ok |-> ok, removed |-> {},
     method |-> "", path |-> "", status |-> 0]

\* inflight[p] is the number of requests sent through peer p whose outcome
\* has not been reported yet; NoneInFlight is its value when there is none
NoneInFlight == [p \in PeerIds |-> 0]

GwInit ==
    /\ gnow = 0
    /\ peer_health = <<>>
    /\ task = "not_started"
    /\ attempt = 0
    /\ deadline = 0
    /\ timers = <<>>
    /\ outcomes = 0
    /\ inflight = NoneInFlight
    /\ glast = GwDone("init", "", <<>>, TRUE)

\* LoadAwareBalancer.start: the task runs to its first await, the GET
start ==
    /\ task = "not_started"
    /\ task' = "fetch"
    /\ attempt' = 0
    /\ deadline' = deadline
    /\ glast' = GwDone("start", "", <<>>, TRUE)
    /\ UNCHANGED <<gnow, peer_health, timers, outcomes, inflight, dirvars>>

\* AfterException that lets the exception of the last attempt end the task
AfterException_ends_task(n, t) ==
    IF n < max_retries - 1
    THEN [task |-> "backoff", deadline |-> t + retry_delay * (n + 1)]
    ELSE [task |-> "cancelled", deadline |-> t]

\* where an exception inside the attempt's try leaves the task (lines
\* 106-111): a backoff sleep, or after the last attempt the cycle's end
AfterException(n, t) ==
    IF n < max_retries - 1
    THEN [task |-> "backoff", deadline |-> t + retry_delay * (n + 1)]
    ELSE [task |-> "sleep", deadline |-> t + update_interval]

\* the GET is answered 200 with a list of peers
response_200(peers) ==
    /\ task = "fetch"
    /\ LET r == on_response_200(peer_health, peers, gnow)
           next == AfterException(attempt, gnow)
       IN  /\ peer_health' = r.table
           /\ task' = IF r.exc THEN next.task ELSE "sleep"
           /\ deadline' = IF r.exc THEN next.deadline ELSE gnow + update_interval
           /\ glast' = [GwDone(IF r.exc THEN "poll_raised" ELSE "poll_ok", "", peers, ~r.exc)
                           EXCEPT !.removed =
                               (TrackedIds(peer_health) \cup {peers[i].id : i \in 1..Len(peers)})
                                   \ TrackedIds(r.table)]
    /\ UNCHANGED <<gnow, attempt, timers, outcomes, inflight, dirvars>>

\* the GET is answered with another status (lines 103-104): no sleep, the
\* for loop goes on to its next attempt, or ends after the last
response_other_status ==
    /\ task = "fetch"
    /\ IF attempt + 1 < max_retries
       THEN /\ attempt' = attempt + 1
            /\ task' = "fetch"
            /\ deadline' = deadline
       ELSE /\ attempt' = attempt
            /\ task' = "sleep"
            /\ deadline' = gnow + update_interval
    /\ glast' = GwDone("poll_status", "", <<>>, FALSE)
    /\ UNCHANGED <<gnow, peer_health, timers, outcomes, inflight, dirvars>>

\* fetch_raises that drops the table when the directory cannot be reached
fetch_raises_clears ==
    /\ task = "fetch"
    /\ LET next == AfterException(attempt, gnow) IN
       /\ task' = next.task
       /\ deadline' = next.deadline
    /\ peer_health' = <<>>
    /\ glast' = GwDone("poll_error", "", <<>>, FALSE)
    /\ UNCHANGED <<gnow, attempt, timers, outcomes, inflight, dirvars>>

\* the GET raises: a connection error or a timeout
fetch_raises ==
    /\ task = "fetch"
    /\ LET next == AfterException(attempt, gnow) IN
       /\ task' = next.task
       /\ deadline' = next.deadline
    /\ glast' = GwDone("poll_error", "", <<>>, FALSE)
    /\ UNCHANGED <<gnow, peer_health, attempt, timers, outcomes, inflight, dirvars>>

\* the backoff sleep is over: the next attempt's GET
retry ==
    /\ task = "backoff"
    /\ gnow >= deadline
    /\ task' = "fetch"
    /\ attempt' = attempt + 1
    /\ deadline' = deadline
    /\ glast' = GwDone("retry", "", <<>>, TRUE)
    /\ UNCHANGED <<gnow, peer_health, timers, outcomes, inflight, dirvars>>

\* the sleep between cycles is over: the next cycle's first GET
next_cycle ==
    /\ task = "sleep"
    /\ gnow >= deadline
    /\ task' = "fetch"
    /\ attempt' = 0
    /\ deadline' = deadline
    /\ glast' = GwDone("cycle", "", <<>>, TRUE)
    /\ UNCHANGED <<gnow, peer_health, timers, outcomes, inflight, dirvars>>

\* LoadAwareBalancer.stop: the task is cancelled at the await it stands at
stop ==
    /\ task \in {"fetch", "backoff", "sleep"}
    /\ task' = "cancelled"
    /\ glast' = GwDone("stop", "", <<>>, TRUE)
    /\ UNCHANGED <<gnow, peer_health, attempt, deadline, timers, outcomes, inflight, dirvars>>

\* a caller reports the outcome of a request sent through peer_id, the
\* limit being the number of reports followed
report(limit, peer_id, response_time, success) ==
    /\ outcomes < limit
    /\ outcomes' = outcomes + 1
    /\ LET r == update_peer_performance(peer_health, peer_id, response_time, success) IN
       /\ peer_health' = r.table
       /\ timers' = IF r.scheduled
                    THEN Append(timers, [peer_id |-> peer_id, due |-> gnow + decrement_delay])
                    ELSE timers
       /\ glast' = GwDone("outcome", peer_id, <<>>, success)
    /\ UNCHANGED <<gnow, task, attempt, deadline, inflight, dirvars>>

report_outcome(peer_id, response_time, success) ==
    report(MaxOutcomes, peer_id, response_time, success)

\* a deferred decrement whose sleep is over
decrement(i) ==
    /\ i \in 1..Len(timers)
    /\ gnow >= timers[i].due
    /\ peer_health' = decrement_connection_count(peer_health, timers[i].peer_id)
    /\ timers' = SubSeq(timers, 1, i - 1) \o SubSeq(timers, i + 1, Len(timers))
    /\ glast' = GwDone("decrement", timers[i].peer_id, <<>>, TRUE)
    /\ UNCHANGED <<gnow, task, attempt, deadline, outcomes, inflight, dirvars>>

\* the instants at which something sleeping is due
Deadlines ==
    (IF task \in {"backoff", "sleep"} THEN {deadline} ELSE {})
    \cup {timers[i].due : i \in 1..Len(timers)}

\* time passes to the next such instant
advance_time(limit) ==
    /\ Deadlines # {}
    /\ LET next == CHOOSE d \in Deadlines : \A e \in Deadlines : d <= e IN
       /\ next > gnow
       /\ next <= limit
       /\ gnow' = next
    /\ glast' = GwDone("time", "", <<>>, TRUE)
    /\ UNCHANGED <<peer_health, task, attempt, deadline, timers, outcomes, inflight, dirvars>>

\* the refresh task, polling a directory whose records are well formed, with
\* feedback calls and their deferred decrements
GwNext ==
    \/ start
    \/ \E peers \in WellFormedLists : response_200(peers)
    \/ response_other_status
    \/ next_cycle
    \/ \E p \in PeerIds, rt \in Samples, ok \in BOOLEAN : report_outcome(p, rt, ok)
    \/ \E i \in 1..MaxOutcomes : decrement(i)
    \/ advance_time(MaxGwNow)

\* the refresh task over the long run, with no requests forwarded
StaleNext ==
    \/ start
    \/ \E peers \in WellFormedLists : response_200(peers)
    \/ response_other_status
    \/ next_cycle
    \/ stop
    \/ advance_time(MaxStaleNow)

\* the refresh task with every failure of a fetch and every list
RetryNext ==
    \/ start
    \/ \E peers \in PollLists : response_200(peers)
    \/ response_other_status
    \/ fetch_raises
    \/ retry
    \/ next_cycle
    \/ stop
    \/ advance_time(MaxRetryNow)

DirInit ==
    /\ now = 0
    /\ peer_timeout \in PeerTimeouts
    /\ expected_key \in ExpectedKeys
    /\ store = [k \in PeerIds |-> Absent]
    /\ hb = NoHb
    /\ last = Done("init", "", "", 0, "", {})

\* a second passes; keys whose TTL has elapsed are gone
Tick ==
    /\ now < MaxNow
    /\ now' = now + 1
    /\ store' = Expire(store, now + 1)
    /\ last' = Done("tick", "", "", 0, "", {})
    /\ UNCHANGED <<peer_timeout, expected_key, hb, gwvars>>

\* POST /api/v1/peer/register; peer_id or ip "" is a missing (or falsy) field
register_peer(peer_id, ip, x_api_key) ==
    /\ ~hb.active
    /\ LET auth == validate_api_key(x_api_key, expected_key)
           peer_info == Object(peer_id, ip, isoformat(now))
           r == PeerManager_register_peer(store, peer_info, now, peer_timeout)
       IN  CASE auth = "TypeError" ->
                  /\ last' = Done("register", peer_id, x_api_key,
                                  HTTP_500_INTERNAL_SERVER_ERROR, "", {})
                  /\ store' = store
             [] auth = "False" ->
                  /\ last' = Done("register", peer_id, x_api_key,
                                  HTTP_401_UNAUTHORIZED, "", {})
                  /\ store' = store
             [] OTHER ->
                  IF peer_id = "" \/ ip = ""
                  THEN /\ last' = Done("register", peer_id, x_api_key,
                                       except_Exception(HTTP_400_BAD_REQUEST), "", {})
                       /\ store' = store
                  ELSE /\ store' = r.store
                       /\ last' = Done("register", peer_id, x_api_key,
                                IF r.ok THEN HTTP_200_OK
                                ELSE except_Exception(HTTP_500_INTERNAL_SERVER_ERROR),
                                IF r.ok THEN "True" ELSE "False", {})
    /\ UNCHANGED <<now, peer_timeout, expected_key, hb, gwvars>>

\* GET /api/v1/peer/list
list_peers(x_api_key) ==
    /\ ~hb.active
    /\ LET auth == validate_api_key(x_api_key, expected_key)
           r == get_available_peers(store, now, peer_timeout)
       IN  last' = CASE auth = "TypeError" ->
                         Done("list", "", x_api_key, HTTP_500_INTERNAL_SERVER_ERROR, "", {})
                    [] auth = "False" ->
                         Done("list", "", x_api_key, HTTP_401_UNAUTHORIZED, "", {})
                    [] OTHER ->
                         IF r.raised
                         THEN Done("list", "", x_api_key,
                                   HTTP_500_INTERNAL_SERVER_ERROR, "raise", {})
                         ELSE Done("list", "", x_api_key, HTTP_200_OK, "peers", r.peers)
    /\ UNCHANGED <<now, peer_timeout, expected_key, store, hb, gwvars>>

\* GET /api/v1/network/status
network_status(x_api_key) ==
    /\ ~hb.active
    /\ LET auth == validate_api_key(x_api_key, expected_key)
           r == get_network_stats(store, now, peer_timeout)
       IN  last' = CASE auth = "TypeError" ->
                         Done("status", "", x_api_key, HTTP_500_INTERNAL_SERVER_ERROR, "", {})
                    [] auth = "False" ->
                         Done("status", "", x_api_key, HTTP_401_UNAUTHORIZED, "", {})
                    [] OTHER ->
                         IF r.raised
                         THEN Done("status", "", x_api_key,
                                   HTTP_500_INTERNAL_SERVER_ERROR, "raise", {})
                         ELSE Done("status", "", x_api_key, HTTP_200_OK, "stats",
                                   {Object(i, "", Missing) : i \in r.peer_ids})
    /\ UNCHANGED <<now, peer_timeout, expected_key, store, hb, gwvars>>

\* POST /api/v1/peer/heartbeat up to update_peer_heartbeat's read of the
\* record (peer_manager.py:40-42): the handler ends here unless a record was
\* read
peer_heartbeat(peer_id, x_api_key) ==
    /\ ~hb.active
    /\ LET auth == validate_api_key(x_api_key, expected_key)
           peer == get_peer(store, peer_id)
       IN  CASE auth = "TypeError" ->
                  /\ last' = Done("heartbeat", peer_id, x_api_key,
                                  HTTP_500_INTERNAL_SERVER_ERROR, "", {})
                  /\ hb' = hb
             [] auth = "False" ->
                  /\ last' = Done("heartbeat", peer_id, x_api_key,
                                  HTTP_401_UNAUTHORIZED, "", {})
                  /\ hb' = hb
             [] OTHER ->
                  IF peer_id = ""
                  THEN /\ last' = Done("heartbeat", peer_id, x_api_key,
                                       except_Exception(HTTP_400_BAD_REQUEST), "", {})
                       /\ hb' = hb
                  ELSE IF ~Truthy(peer)
                  THEN /\ last' = Done("heartbeat", peer_id, x_api_key,
                                       except_Exception(HTTP_404_NOT_FOUND), "False", {})
                       /\ hb' = hb
                  ELSE /\ last' = Done("heartbeat_read", peer_id, x_api_key, 0, "", {})
                       /\ hb' = [active |-> TRUE, id |-> peer_id, peer |-> peer, at |-> now]
    /\ UNCHANGED <<now, peer_timeout, expected_key, store, gwvars>>

\* the rest of the heartbeat (peer_manager.py:44-46, main.py:74-81): the
\* record read earlier is written back with last_seen = now
peer_heartbeat_write ==
    /\ hb.active
    /\ LET r == update_peer_heartbeat_write(store, hb.id, hb.peer, now, peer_timeout)
       IN  /\ store' = r.store
           /\ last' = [Done("heartbeat", hb.id, expected_key,
                  IF r.exc # "none" THEN HTTP_500_INTERNAL_SERVER_ERROR
                  ELSE IF r.ok THEN HTTP_200_OK
                  ELSE except_Exception(HTTP_404_NOT_FOUND),
                  IF r.exc # "none" THEN "raise"
                  ELSE IF r.ok THEN "True" ELSE "False", {hb.peer})
                        EXCEPT !.at = hb.at]
    /\ hb' = NoHb
    /\ UNCHANGED <<now, peer_timeout, expected_key, gwvars>>

\* every order in which KEYS may return the present keys
Orders(S) == {s \in UNION {[1..n -> S] : n \in {Cardinality(S)}} :
                 \A i, j \in DOMAIN s : i # j => s[i] # s[j]}

\* PeerManager.cleanup_dead_peers(), run by the operator of the directory
sweep_dead ==
    /\ ~hb.active
    /\ \E keys \in Orders(get_all_keys(store)) :
          LET r == cleanup_dead_peers(store, keys, now, peer_timeout) IN
          /\ store' = r.store
          /\ last' = Done("sweep", "", "", 0, IF r.raised THEN "raise" ELSE "None", {})
    /\ UNCHANGED <<now, peer_timeout, expected_key, hb, gwvars>>

DirNext ==
    \/ Tick
    \/ \E p \in PeerIds \cup {""}, ip \in Ips \cup {""}, k \in ApiKeys : register_peer(p, ip, k)
    \/ \E k \in ApiKeys : list_peers(k)
    \/ \E k \in ApiKeys : network_status(k)
    \/ \E p \in PeerIds \cup {""}, k \in ApiKeys : peer_heartbeat(p, k)
    \/ peer_heartbeat_write
    \/ sweep_dead

\* the directory service, the gateway not started
Init == DirInit /\ GwInit

Spec == Init /\ [][DirNext]_vars

\* ------------------------------------------- the store's other clients
\* What another client of the same Redis database may leave under a peer
\* key: a text that is no JSON, a falsy document, a truthy document that is
\* no dict, and dicts with or without id and with every form of last_seen
ForeignTexts(k) ==
    {Garbage, dumps(FalsyV), dumps(ArrayV)}
    \cup {dumps(Object(id, "10.0.0.1", ls)) :
            id \in {k, ""}, ls \in {Missing, NotIso, Number, isoformat(0)}}

\* SET key text, without expiry, by another client
ForeignWrite(k, text) ==
    /\ store' = [store EXCEPT ![k] =
                    [present |-> TRUE, text |-> text, persist |-> TRUE, exp |-> 0]]
    /\ last' = Done("foreign", k, "", 0, "", {})
    /\ UNCHANGED <<now, peer_timeout, expected_key, hb, gwvars>>

StoreInit ==
    /\ DirInit
    /\ expected_key = "k1"
    /\ peer_timeout > 0
    /\ GwInit

\* the directory, called with the right key, beside other writers to its store
StoreNext ==
    \/ Tick
    \/ \E p \in PeerIds : register_peer(p, "10.0.0.1", "k1")
    \/ list_peers("k1")
    \/ \E p \in PeerIds : peer_heartbeat(p, "k1")
    \/ peer_heartbeat_write
    \/ sweep_dead
    \/ \E k \in PeerIds : \E text \in ForeignTexts(k) : ForeignWrite(k, text)

SpecStore == StoreInit /\ [][StoreNext]_vars

\* the gateway beside a directory that is configured and left alone
GatewayInit ==
    /\ DirInit
    /\ peer_timeout = 2
    /\ expected_key = "k1"
    /\ GwInit

SpecGw == GatewayInit /\ [][GwNext]_vars

\* the refresh task alone, long enough for a tracked peer to go stale
SpecStale == GatewayInit /\ [][StaleNext]_vars

\* the refresh task alone, with failing fetches and their backoff
SpecRetry == GatewayInit /\ [][RetryNext]_vars

\* the refresh task over the long run beside forwarded requests: a peer may
\* be removed between its selection and the report of the outcome
\* the answers of a directory at which one peer stays registered while the
\* other comes and goes
EvictLists == {l \in WellFormedLists : l # <<>> /\ l[Len(l)].id = "p2"}

EvictNext ==
    \/ start
    \/ \E peers \in EvictLists : response_200(peers)
    \/ next_cycle
    \/ \E p \in PeerIds, ok \in BOOLEAN : report_outcome(p, 50, ok)
    \/ \E i \in 1..MaxOutcomes : decrement(i)
    \/ advance_time(MaxEvictNow)

SpecEvict == GatewayInit /\ [][EvictNext]_vars

\* one peer, listed by every poll, through which many requests are sent, at
\* most MaxPending of them having succeeded within the last 60 s
RateLists == {l \in WellFormedLists : Len(l) = 1 /\ l[1].id = "p1"}

RateNext ==
    \/ start
    \/ \E peers \in RateLists : response_200(peers)
    \/ next_cycle
    \/ \E ok \in BOOLEAN :
          /\ ok => Len(timers) < MaxPending
          /\ report(MaxRateOutcomes, "p1", 50, ok)
    \/ \E i \in 1..MaxRateOutcomes : decrement(i)
    \/ advance_time(MaxRateNow)

SpecRate == GatewayInit /\ [][RateNext]_vars

\* ------------------------------------------------- selection, on its own
\* the figures a tracked peer may carry when a selection is made
SelectResponseTimes == {50, 100, 500}
SelectSuccessRates == {0, 70, 71, 90, 95, 100}
SelectActive == {0, 10, 49, 50}
SelectHealths(p) ==
    {[peer_id |-> p, ip_address |-> "10.0.0.1", last_seen |-> 0,
      response_time |-> rt * RtUnit, active_connections |-> a,
      max_connections |-> seed_max_connections,
      success_rate |-> (sr * SrUnit) \div 100] :
        rt \in SelectResponseTimes, sr \in SelectSuccessRates, a \in SelectActive}

\* the tables of such peers, in every order of insertion
SelectTables ==
    {tbl \in UNION {[1..n -> UNION {SelectHealths(p) : p \in PeerIds}] :
                        n \in 0..Cardinality(PeerIds)} :
        \A i, j \in 1..Len(tbl) : i # j => tbl[i].peer_id # tbl[j].peer_id}

\* the decrements pending for the active connections of a table
RECURSIVE PendingFor(_)
PendingFor(tbl) ==
    IF tbl = <<>> THEN <<>>
    ELSE [i \in 1..Head(tbl).active_connections |->
             [peer_id |-> Head(tbl).peer_id, due |-> decrement_delay]]
         \o PendingFor(Tail(tbl))

\* the gateway after its first poll and the requests that followed it
SelectInit ==
    /\ DirInit
    /\ peer_timeout = 2
    /\ expected_key = "k1"
    /\ gnow = 0
    /\ peer_health \in SelectTables
    /\ task = "sleep"
    /\ attempt = 0
    /\ deadline = update_interval
    /\ timers = PendingFor(peer_health)
    /\ outcomes = 0
    /\ inflight = NoneInFlight
    /\ glast = GwDone("init", "", <<>>, TRUE)

\* a caller asks for the best peer
select ==
    /\ LET best == get_best_peer(peer_health) IN
       glast' = GwDone("select", best.peer_id, <<>>, best # NoPeer)
    /\ UNCHANGED <<gnow, peer_health, task, attempt, deadline, timers, outcomes, inflight, dirvars>>

SelectNext == select

SpecSelect == SelectInit /\ [][SelectNext]_vars

\* ------------------------------------------------------- proxy server
\* the requests that reach ProxyServer: the routed methods, and paths that
\* are empty, the root, a Twitch security path and any other
Methods == {"GET", "POST", "PUT", "DELETE", "CONNECT"}
Paths == {"", "/", "/time/1/current", "/video"}
IsTwitchSecurity(full_path) == full_path = "/time/1/current"

\* the response of catch_all_middleware and handle_request (lines 21-26 and
\* 89-121): the status and the text
respond(method, full_path) ==
    IF method = "CONNECT" THEN [status |-> 200, text |-> ""]
    ELSE IF IsTwitchSecurity(full_path) THEN [status |-> 200, text |-> ""]
    ELSE [status |-> 200, text |-> "OK"]

\* ProxyServer.handle_request, behind the middleware: it answers by itself
\* and leaves the load balancer alone
handle_request(method, full_path) ==
    /\ glast' = [GwDone("request", "", <<>>, TRUE)
                    EXCEPT !.method = method, !.path = full_path,
                           !.status = respond(method, full_path).status]
    /\ UNCHANGED <<gnow, peer_health, task, attempt, deadline, timers, outcomes, inflight, dirvars>>

\* requests served over every table of the selection
ProxyNext ==
    \/ select
    \/ \E method \in Methods, full_path \in Paths : handle_request(method, full_path)

SpecProxy == SelectInit /\ [][ProxyNext]_vars

\* the refresh task over the long run against a directory that lists one
\* peer when it answers, and that fails in every way for as long as it likes
OutageNext ==
    \/ start
    \/ \E peers \in RateLists : response_200(peers)
    \/ response_other_status
    \/ fetch_raises
    \/ retry
    \/ next_cycle
    \/ advance_time(MaxStaleNow)

SpecOutage == GatewayInit /\ [][OutageNext]_vars

\* ------------------------------------------------ forwarding, as specified
\* The forward path is not in the running code (C18, C19); what follows is
\* the caller the specification describes: it selects a peer, sends the
\* request through it, and reports the outcome when the request ends.
InFlight == inflight[CHOOSE p \in PeerIds : TRUE]
              + inflight[CHOOSE p \in PeerIds : p # (CHOOSE q \in PeerIds : TRUE)]

\* a request arrives: the best peer is selected and the request sent
dispatch ==
    /\ InFlight < MaxInFlight
    /\ LET best == get_best_peer(peer_health) IN
       /\ inflight' = IF best = NoPeer THEN inflight
                      ELSE [inflight EXCEPT ![best.peer_id] = @ + 1]
       /\ glast' = GwDone("dispatch", best.peer_id, <<>>, best # NoPeer)
    /\ UNCHANGED <<gnow, peer_health, task, attempt, deadline, timers, outcomes, dirvars>>

\* a request sent through peer_id ends and its outcome is reported
complete(peer_id, response_time, success) ==
    /\ inflight[peer_id] > 0
    /\ outcomes < MaxFeedback
    /\ outcomes' = outcomes + 1
    /\ inflight' = [inflight EXCEPT ![peer_id] = @ - 1]
    /\ LET r == update_peer_performance(peer_health, peer_id, response_time, success) IN
       /\ peer_health' = r.table
       /\ timers' = IF r.scheduled
                    THEN Append(timers, [peer_id |-> peer_id, due |-> gnow + decrement_delay])
                    ELSE timers
       /\ glast' = GwDone("outcome", peer_id, <<>>, success)
    /\ UNCHANGED <<gnow, task, attempt, deadline, dirvars>>

\* the refresh task beside such a caller
FeedbackNext ==
    \/ start
    \/ \E peers \in EvictLists : response_200(peers)
    \/ next_cycle
    \/ dispatch
    \/ \E p \in PeerIds, ok \in BOOLEAN : complete(p, 50, ok)
    \/ \E i \in 1..MaxFeedback : decrement(i)
    \/ advance_time(MaxGwNow)

SpecFeedback == GatewayInit /\ [][FeedbackNext]_vars

\* the same, on an event loop that runs what is due and a clock that moves
RetryFairness ==
    /\ WF_vars(retry)
    /\ WF_vars(next_cycle)
    /\ WF_vars(advance_time(MaxRetryNow))

SpecRetryFair == GatewayInit /\ [][RetryNext]_vars /\ RetryFairness

\* =============================================================== claims
Endpoints == {"register", "heartbeat", "list", "status"}

\* the stored records that are dicts with an ISO last_seen younger than
\* peer_timeout
OnlineRecords ==
    {get_key(store, k) : k \in
        {c \in PeerIds : /\ store[c].present
                         /\ get_key(store, c).kind = "object"
                         /\ get_key(store, c).last_seen.form = "iso"
                         /\ now - get_key(store, c).last_seen.t < peer_timeout}}

\* C1: list_online returns a stored record if and only if now - last_seen is
\* strictly less than peer_timeout, both as get_available_peers computes it
\* in every reachable state and as the list endpoint answers.
C1_ListOnlineStrictlyYounger ==
    /\ \A k \in PeerIds :
          store[k].present =>
             LET rec == get_key(store, k) IN
             (rec \in get_available_peers(store, now, peer_timeout).peers)
                <=> (now - rec.last_seen.t < peer_timeout)
    /\ (last.op = "list" /\ last.status = HTTP_200_OK) => last.peers = OnlineRecords

\* C1 witness: a list answered while a record aged exactly peer_timeout is
\* still stored, which the answer leaves out
C1_Witness ==
    /\ last.op = "list"
    /\ last.status = HTTP_200_OK
    /\ peer_timeout > 0
    /\ \E k \in PeerIds :
          /\ store[k].present
          /\ now - get_key(store, k).last_seen.t = peer_timeout
          /\ get_key(store, k) \notin last.peers
    /\ \E k \in PeerIds : store[k].present /\ get_key(store, k) \in last.peers

\* C2: a heartbeat for an id with no stored record returns false and leaves
\* the store as it was; a heartbeat issued while the record is younger than
\* peer_timeout returns true, sets last_seen to the time of its write, never
\* earlier than the value it replaces, and the record is then listed.
C2_Heartbeat ==
    [][/\ (/\ last'.op = "heartbeat"
           /\ ~hb.active
           /\ validate_api_key(last'.key, expected_key) = "True"
           /\ last'.id # ""
           /\ ~store[last'.id].present)
          => (last'.ret = "False" /\ store' = store)
       /\ (/\ hb.active
           /\ ~hb'.active
           /\ hb.at - hb.peer.last_seen.t < peer_timeout)
          => (/\ last'.ret = "True"
              /\ get_key(store', hb.id).last_seen = isoformat(now')
              /\ now' >= hb.peer.last_seen.t
              /\ get_key(store', hb.id) \in
                    get_available_peers(store', now', peer_timeout).peers)
      ]_vars

\* C2 witness: a heartbeat has succeeded, later than the registration, and the
\* record carries the time of the heartbeat
C2_Witness ==
    /\ last.op = "heartbeat"
    /\ last.ret = "True"
    /\ \E old \in last.peers :
          /\ last.at - old.last_seen.t < peer_timeout
          /\ old.last_seen.t < now
    /\ get_key(store, last.id).last_seen = isoformat(now)
    /\ get_key(store, last.id) \in OnlineRecords

\* C3 (as claimed): the heartbeat endpoint, called with a valid key and a
\* peer_id that has no stored record, answers 404.
C3_UnknownPeerIs404 ==
    (/\ last.op = "heartbeat"
     /\ validate_api_key(last.key, expected_key) = "True"
     /\ last.id # ""
     /\ last.ret = "False")
    => last.status = HTTP_404_NOT_FOUND

\* C4 (as claimed): on each endpoint a request whose key is empty or differs
\* from the configured key, or any request when no key is configured, is
\* answered 401 and leaves the store unchanged.
C4_BadKeyIs401 ==
    [][(/\ last'.op \in Endpoints
        /\ (last'.key = "" \/ last'.key # expected_key \/ expected_key = ""))
       => (last'.status = HTTP_401_UNAUTHORIZED /\ store' = store)
      ]_vars

\* C5 (as claimed): whatever malformed values sit under peer keys, the list
\* does not fail and returns every well-formed online record.
C5_ListSkipsMalformed ==
    last.op = "list" => (last.status = HTTP_200_OK /\ last.peers = OnlineRecords)

\* C6 (as claimed): every write of register and heartbeat carries an expiry
\* of 2 x peer_timeout, so no record is readable 2 x peer_timeout after its
\* last write, whatever peer_timeout is.
C6_RecordsExpire ==
    \A k \in PeerIds :
       store[k].present =>
          LET written == get_key(store, k).last_seen.t IN
          /\ ~store[k].persist
          /\ store[k].exp = written + 2 * peer_timeout
          /\ ~(now > written /\ now - written >= 2 * peer_timeout)

\* C7 (as claimed): when the record has disappeared between the heartbeat's
\* read and its write, the heartbeat returns false and does not re-create it.
C7_VanishedNotRecreated ==
    [][(hb.active /\ ~hb'.active /\ ~store[hb.id].present)
       => (last'.ret = "False" /\ ~store'[hb.id].present)
      ]_vars

\* records on which the liveness check answers (does not raise)
Checkable(st) ==
    \A k \in PeerIds :
       Truthy(get_key(st, k)) =>
          is_peer_online(get_key(st, k), now, peer_timeout) # "TypeError"

\* C8 (as claimed): a sweep deletes every record whose liveness check fails
\* and none whose check passes, also when a record lacks a field.
C8_SweepDeletesAllDead ==
    [][(last'.op = "sweep" /\ Checkable(store))
       => \A k \in PeerIds :
             Truthy(get_key(store, k)) =>
                IF is_peer_online(get_key(store, k), now, peer_timeout) = "False"
                THEN ~store'[k].present
                ELSE store'[k] = store[k]
      ]_vars

PolledIds(peers) == {peers[i].id : i \in 1..Len(peers)}

\* C9: in a successful poll a peer id not yet tracked is inserted with
\* response_time 100, success_rate 0.95, no active connection and room for
\* 50, and a tracked one only has its last_seen set to the gateway's time.
C9_PollSeedsOrTouches ==
    [][(task = "fetch" /\ glast'.op = "poll_ok")
       => \A id \in PolledIds(glast'.peers) :
             /\ Tracked(peer_health', id)
             /\ IF Tracked(peer_health, id)
                THEN Health(peer_health', id)
                        = [Health(peer_health, id) EXCEPT !.last_seen = gnow]
                ELSE LET health == Health(peer_health', id) IN
                     /\ health.response_time = 100 * RtUnit
                     /\ health.success_rate * 100 = 95 * SrUnit
                     /\ health.active_connections = 0
                     /\ health.max_connections = 50
                     /\ health.last_seen = gnow
      ]_vars

\* C9 witness: a poll has just listed a peer whose figures feedback had moved
\* off the seed values, beside a peer that carries the seed values
C9_Witness ==
    /\ glast.op = "poll_ok"
    /\ \E p, q \in PolledIds(glast.peers) :
          /\ Tracked(peer_health, p) /\ Tracked(peer_health, q)
          /\ Health(peer_health, p).last_seen = gnow
          /\ Health(peer_health, p).response_time # seed_response_time * RtUnit
          /\ Health(peer_health, p).active_connections > 0
          /\ Health(peer_health, q).response_time = seed_response_time * RtUnit
          /\ Health(peer_health, q).last_seen = gnow

FailedAttempts == {"poll_status", "poll_error", "poll_raised"}

\* C11 (as claimed): every failed attempt but the fifth, whether the GET
\* raised or was answered with a status other than 200, is followed by a
\* delay of retry_delay x attempt number before the next attempt, and the
\* fifth failure ends the cycle, the next one starting update_interval later.
C11_FailedAttemptsBackOff ==
    [][(task = "fetch" /\ glast'.op \in FailedAttempts)
       => IF attempt + 1 < 5
          THEN /\ task' = "backoff"
               /\ deadline' = gnow + 2 * (attempt + 1)
               /\ attempt' = attempt
          ELSE /\ task' = "sleep"
               /\ deadline' = gnow + 30
      ]_vars

\* the awaits at which the running refresh task stands
Running == {"fetch", "backoff", "sleep"}

\* C12: once started, the refresh task leaves its loop in no step but stop,
\* whatever its attempts answer or raise; stop cancels it and returns
\* normally; a task that is sleeping goes on to its next GET unless stop
\* cancels it first.
C12_TaskEndsOnlyByStop ==
    /\ [][/\ (task \in Running /\ glast'.op # "stop") => task' \in Running
          /\ (task \in Running /\ glast'.op = "stop")
                => (task' = "cancelled" /\ glast'.ok)
          /\ task = "cancelled" => task' = "cancelled"
         ]_vars
    /\ [](((task \in {"backoff", "sleep"}) /\ deadline <= MaxRetryNow)
             => <>(task \in {"fetch", "cancelled"}))

\* C12 witness: stop cancels the task in the cycle that follows a cycle
\* in which four attempts raised and were backed off
C12_Witness ==
    /\ glast.op = "stop"
    /\ task = "cancelled"
    /\ attempt = 0
    /\ gnow = 2 + 4 + 6 + 8 + update_interval
    /\ deadline = gnow

\* C13: update_peer_performance for a peer id that is not in the health
\* table, a peer removed since its selection included, leaves the table as
\* it was and schedules no deferred decrement.
C13_OutcomeOfUntrackedIsNoOp ==
    [][(glast'.op = "outcome" /\ ~Tracked(peer_health, glast'.id))
       => (peer_health' = peer_health /\ timers' = timers)
      ]_vars

\* C13 witness: an outcome has been reported for a peer that the stale sweep
\* removed while the decrement of its previous request was still pending,
\* and another peer is tracked
C13_Witness ==
    /\ glast.op = "outcome"
    /\ ~Tracked(peer_health, glast.id)
    /\ \E i \in 1..Len(timers) : timers[i].peer_id = glast.id
    /\ peer_health # <<>>

\* C14: the success_rate of every tracked peer stays within [0, 1]; an
\* outcome reported as a success adds 0.01 to it, capped at 1, and one
\* reported as a failure subtracts 0.05, floored at 0; no other step
\* changes it.
C14_SuccessRateWithinUnit ==
    [][\A p \in TrackedIds(peer_health') :
          LET new == Health(peer_health', p).success_rate IN
          /\ 0 <= new /\ new <= SrUnit
          /\ Tracked(peer_health, p) =>
                LET old == Health(peer_health, p).success_rate IN
                IF glast'.op = "outcome" /\ glast'.id = p
                THEN IF glast'.ok
                     THEN 100 * new = (IF 100 * old + SrUnit > 100 * SrUnit
                                       THEN 100 * SrUnit ELSE 100 * old + SrUnit)
                     ELSE 100 * new = (IF 100 * old - 5 * SrUnit < 0
                                       THEN 0 ELSE 100 * old - 5 * SrUnit)
                ELSE new = old
      ]_vars

\* C14 witness: a failure reported at a success_rate under 0.05 has left it
\* at 0 (one success and the failures cannot add up to 0 from 0.95)
C14_Witness ==
    /\ glast.op = "outcome" /\ ~glast.ok
    /\ Tracked(peer_health, glast.id)
    /\ Health(peer_health, glast.id).success_rate = 0
    /\ Health(peer_health, glast.id).active_connections = 1
    /\ Len(timers) = 1

\* the tracked peers that pass both conditions of the selection
Eligible(tbl) ==
    {i \in 1..Len(tbl) :
        /\ 10 * tbl[i].success_rate > 7 * SrUnit
        /\ tbl[i].active_connections < tbl[i].max_connections}

\* C15: get_best_peer returns no peer whose success_rate is 0.7 or less or
\* whose active_connections have reached max_connections; it returns a
\* tracked peer when some tracked peer passes both conditions, and nothing
\* exactly when none does.
C15_SelectsOnlyEligible ==
    glast.op = "select" =>
       IF Eligible(peer_health) = {}
       THEN glast.id = "" /\ ~glast.ok
       ELSE /\ glast.ok
            /\ \E i \in Eligible(peer_health) : peer_health[i].peer_id = glast.id

\* C15 witness: of two tracked peers the one with the higher score has a
\* success_rate of exactly 0.7, and the other one is returned
C15_Witness ==
    /\ glast.op = "select"
    /\ glast.ok
    /\ \E i \in 1..Len(peer_health) :
          /\ peer_health[i].peer_id # glast.id
          /\ 10 * peer_health[i].success_rate = 7 * SrUnit
          /\ peer_health[i].active_connections = 0
          /\ peer_health[i].response_time = 50 * RtUnit
    /\ Health(peer_health, glast.id).response_time = 500 * RtUnit

\* the score of the claim for a peer whose response_time is a whole number
\* of ms: 0.3 x (1 - active/max) + 0.7 x (1000/response_time) x success_rate
ClaimedScore(h) ==
    LET ms == h.response_time \div RtUnit IN
    Ratio(3 * (h.max_connections - h.active_connections) * ms * SrUnit
             + 7 * 1000 * h.success_rate * h.max_connections,
          10 * h.max_connections * ms * SrUnit)

\* C16: among the peers that pass both conditions get_best_peer returns
\* one whose total_score 0.3 x (1 - active/max) + 0.7 x (1000/response_time)
\* x success_rate is maximal; peer A (active 10, max 50, response 50 ms,
\* success 1.0) scores 14.24, peer B (active 0, max 50, response 500 ms,
\* success 0.9) scores 1.56, and of the two A is returned.
C16_SelectsMaximalScore ==
    (glast.op = "select" /\ glast.ok) =>
       LET best == Health(peer_health, glast.id) IN
       /\ \A i \in Eligible(peer_health) :
             ~RatLess(ClaimedScore(best), ClaimedScore(peer_health[i]))
       /\ \A i, j \in 1..Len(peer_health) :
             LET A == peer_health[i]
                 B == peer_health[j]
             IN  (/\ A.active_connections = 10 /\ A.max_connections = 50
                  /\ A.response_time = 50 * RtUnit /\ A.success_rate = SrUnit
                  /\ B.active_connections = 0 /\ B.max_connections = 50
                  /\ B.response_time = 500 * RtUnit /\ 10 * B.success_rate = 9 * SrUnit)
                 => /\ glast.id = A.peer_id
                    /\ ClaimedScore(A) = Ratio(1424, 100)
                    /\ ClaimedScore(B) = Ratio(156, 100)

\* C16 witness: peer B was inserted before peer A, and A is returned
C16_Witness ==
    /\ glast.op = "select"
    /\ Len(peer_health) = 2
    /\ peer_health[1].active_connections = 0
    /\ peer_health[1].response_time = 500 * RtUnit
    /\ 10 * peer_health[1].success_rate = 9 * SrUnit
    /\ peer_health[2].active_connections = 10
    /\ peer_health[2].response_time = 50 * RtUnit
    /\ peer_health[2].success_rate = SrUnit
    /\ glast.id = peer_health[2].peer_id

\* C17 (as claimed): when several eligible peers share the maximal
\* total_score, get_best_peer returns the one that comes last in the order
\* in which the tracked peers are iterated.
C17_TieGoesToLast ==
    (glast.op = "select" /\ glast.ok) =>
       \A i \in Eligible(peer_health) :
          ClaimedScore(peer_health[i]) = ClaimedScore(Health(peer_health, glast.id))
             => i <= IndexOf(peer_health, glast.id)

\* C18 (as claimed): a request whose method is not CONNECT, arriving when
\* get_best_peer returns nothing, is answered with the bad-gateway failure
\* (502) and with no success response.
C18_NoPeerIsBadGateway ==
    (/\ glast.op = "request"
     /\ glast.method # "CONNECT"
     /\ get_best_peer(peer_health) = NoPeer)
    => glast.status = 502

\* C19 (as claimed): a request whose method is not CONNECT, arriving when
\* get_best_peer returns a peer, is forwarded through that peer and ends
\* with one update_peer_performance for it, which changes its record.
C19_ForwardRecordsOutcome ==
    [][(/\ glast'.op = "request"
        /\ glast'.method # "CONNECT"
        /\ ~IsTwitchSecurity(glast'.path)
        /\ get_best_peer(peer_health) # NoPeer)
       => \E response_time \in Samples, success \in BOOLEAN :
             LET r == update_peer_performance(
                          peer_health, get_best_peer(peer_health).peer_id,
                          response_time, success)
             IN  /\ peer_health' = r.table
                 /\ r.scheduled => Len(timers') = Len(timers) + 1
      ]_vars

\* C20: an outcome reported as a success on a tracked peer adds 1 to its
\* active_connections at once and schedules one decrement, due 60 s later;
\* one reported as a failure leaves active_connections and the pending
\* decrements as they were; a decrement runs when its 60 s are over and
\* takes 1 off, stopping at 0; active_connections is never negative.
C20_ActiveConnections ==
    [][/\ \A p \in TrackedIds(peer_health') :
             Health(peer_health', p).active_connections >= 0
       /\ (glast'.op = "outcome" /\ Tracked(peer_health, glast'.id))
          => LET before == Health(peer_health, glast'.id).active_connections
                 after == Health(peer_health', glast'.id).active_connections
             IN  IF glast'.ok
                 THEN /\ after = before + 1
                      /\ timers' = Append(timers, [peer_id |-> glast'.id, due |-> gnow + 60])
                 ELSE after = before /\ timers' = timers
       /\ glast'.op = "decrement"
          => /\ Len(timers') = Len(timers) - 1
             /\ \E i \in 1..Len(timers) :
                   timers[i].peer_id = glast'.id /\ timers[i].due = gnow
             /\ Tracked(peer_health, glast'.id)
                => LET before == Health(peer_health, glast'.id).active_connections
                       after == Health(peer_health', glast'.id).active_connections
                   IN  after = (IF before = 0 THEN 0 ELSE before - 1)
       /\ glast'.op \notin {"outcome", "decrement"}
          => /\ timers' = timers
             /\ \A p \in TrackedIds(peer_health) \cap TrackedIds(peer_health') :
                   Health(peer_health', p).active_connections
                      = Health(peer_health, p).active_connections
      ]_vars

\* C20 witness: a decrement has run on a peer that was removed and seeded
\* again since the success that scheduled it, and has left it at 0
C20_Witness ==
    /\ glast.op = "decrement"
    /\ Tracked(peer_health, glast.id)
    /\ Health(peer_health, glast.id).active_connections = 0
    /\ Health(peer_health, glast.id).response_time = seed_response_time * RtUnit

\* C21: an attempt of the refresh that fails because the GET raised (the
\* directory unreachable, a timeout) or was answered with a status other than
\* 200, and the waiting between such attempts, leave the health table exactly
\* as it was, stale peers included, so get_best_peer answers as before.
C21_FailedCycleKeepsTable ==
    [][(glast'.op \in {"poll_error", "poll_status", "retry", "time", "cycle"})
       => /\ peer_health' = peer_health
          /\ get_best_peer(peer_health') = get_best_peer(peer_health)
      ]_vars

\* C21 witness: the fifth attempt of a cycle has raised, all of the cycle's
\* attempts having failed, and a peer last seen more than 300 s ago is still
\* tracked and still selected
C21_Witness ==
    /\ glast.op = "poll_error"
    /\ task = "sleep"
    /\ attempt = max_retries - 1
    /\ \E p \in TrackedIds(peer_health) :
          /\ gnow - Health(peer_health, p).last_seen > stale_window
          /\ get_best_peer(peer_health).peer_id = p

\* the deferred decrements scheduled for a peer id that have not run yet
PendingDecrements(p) == Cardinality({i \in 1..Len(timers) : timers[i].peer_id = p})

\* C22 (as claimed): in every reachable state the active_connections of a
\* tracked peer equals the number of deferred decrements pending for its id,
\* also after the peer was removed as stale and seen again by a later poll.
C22_ActiveEqualsPending ==
    \A p \in TrackedIds(peer_health) :
       Health(peer_health, p).active_connections = PendingDecrements(p)

C24_AttemptAllOrNothing ==
    [][task = "fetch"
       => IF glast'.op = "poll_ok"
          THEN /\ \A id \in PolledIds(glast'.peers) :
                     /\ Tracked(peer_health', id)
                     /\ Health(peer_health', id).last_seen = gnow
               /\ \A p \in TrackedIds(peer_health') : ~IsStale(Health(peer_health', p), gnow)
          ELSE peer_health' = peer_health
      ]_vars

====
